---- MODULE Spec2Model ----
(***************************************************************************)
(* Model of dxcluster_cache.py: the DX Cluster connection manager          *)
(* (DXClusterClient.run / stop), the bounded spot cache (the deque         *)
(* `spots` and the persisted maxcache), and the serving-layer handlers     *)
(* that read the cache, resize it, send commands and restart the client.   *)
(***************************************************************************)
EXTENDS Integers, Sequences, FiniteSets, TLC

\* ------------------------------------------------------------------ bounds
MaxCap     == 2      \* largest maxcache value tried
MaxLines     == 3    \* spot lines accepted in a run that exercises the cache
MaxCacheOps  == 2    \* cache requests (reads, resizes, file edits) in such a run
MaxLinkLines == 1    \* spot lines accepted in a run that exercises the link
MaxLinkOps   == 2    \* link requests (sends, restarts) in such a run
MaxLiveLines == 1    \* spot lines accepted in a run checked for progress
MaxLiveOps   == 1    \* requests of either sort in a run checked for progress
MaxMgrs    == 2      \* DXClusterClient objects ever created
MaxLookups == 3      \* calls of dxcc_lookup in a run of the enrichment cache
MaxIngestLines == 2  \* spot lines accepted in a run with enrichment writes
MaxIngestOps   == 1  \* requests, and look-up answers, in such a run
PollLimit  == 1      \* read_very_eager polls before the 30 s window ends

Capacities == 0..MaxCap
Mgrs       == 1..MaxMgrs
Web        == {"w1", "w2"}
Free       == "free"

\* What the environment may supply in one run: either a run that exercises
\* the cache or a run that exercises the link.
Budgets == { [lines |-> MaxLines,     cache |-> MaxCacheOps, link |-> 0,          dx |-> 0],
             [lines |-> MaxLinkLines, cache |-> 0,           link |-> MaxLinkOps, dx |-> 0] }

\* --------------------------------------------------------------- variables
VARIABLES
    cfgMax,     \* "maxcache" of the persisted configuration file
    spots,      \* contents of the deque `spots`, oldest first
    spotsMaxlen,\* spots.maxlen
    lock,       \* owner of _lock: Free, a serving-layer thread, or "mgr"
    client,     \* the global `client`: index of the current DXClusterClient
    mgr,        \* per DXClusterClient: position in run(), its fields, and
                \* `wire`, what has been written to its open connection
    web,        \* per serving-layer thread: the request it executes
    nextId,     \* arrival number of the next accepted line
    left,       \* inputs the environment may still supply
    dxcc_cache, \* the dict dxcc_cache: call sign -> stored entry, or NoEntry
    consecutive_dxcc_errors,  \* the global counter of failed lookups
    clock,      \* what time.time() returns
    lookup,     \* per enrichment thread: its position in dxcc_lookup
    sent,       \* requests.post calls made to the look-up service
    hist,       \* the outcome of each lookup, in the order the outcomes fell
    fnArg,      \* argument of the pure function being applied
    fnRet       \* what that function returned

core == <<cfgMax, spots, spotsMaxlen, lock, client, mgr, web, nextId, left>>

\* state of the enrichment cache and of a function application
rest == <<dxcc_cache, consecutive_dxcc_errors, clock, lookup, sent, hist, fnArg, fnRet>>

vars == <<core, rest>>

\* ------------------------------------------------------------ pure helpers
Reverse(s) == [i \in 1..Len(s) |-> s[Len(s) + 1 - i]]

Min(a, b) == IF a < b THEN a ELSE b

\* list(spots)[-k:] for k > 0, empty for k = 0
LastN(s, k) == IF Len(s) <= k THEN s ELSE SubSeq(s, Len(s) - k + 1, Len(s))

\* deque(list(spots), maxlen=k): keeps the newest k items
DequeNewMutDropNewest(s, k) == IF Len(s) <= k THEN s ELSE SubSeq(s, 1, k)

DequeNew(s, k) == LastN(s, k)

\* deque.append on a deque with maxlen ml
DequeAppendMutEvictNewest(s, ml, x) ==
    IF ml = 0 THEN s
    ELSE IF Len(s) >= ml THEN Append(SubSeq(s, 1, ml - 1), x)
    ELSE Append(s, x)

DequeAppend(s, ml, x) ==
    IF ml = 0 THEN s
    ELSE IF Len(s) >= ml THEN Append(SubSeq(s, Len(s) - ml + 2, Len(s)), x)
    ELSE Append(s, x)

\* qrg2band_khz, on a frequency given in tenths of a kHz
qrg2band_khz(f) ==
    IF 10000 < f /\ f < 20000 THEN "160m"
    ELSE IF 30000 < f /\ f < 40000 THEN "80m"
    ELSE IF 60000 < f /\ f < 80000 THEN "40m"
    ELSE IF 90000 < f /\ f < 110000 THEN "30m"
    ELSE IF 130000 < f /\ f < 150000 THEN "20m"
    ELSE IF 170000 < f /\ f < 190000 THEN "17m"
    ELSE IF 200000 < f /\ f < 220000 THEN "15m"
    ELSE IF 230000 < f /\ f < 250000 THEN "12m"
    ELSE IF 270000 < f /\ f < 300000 THEN "10m"
    ELSE IF 490000 < f /\ f < 520000 THEN "6m"
    ELSE IF 690000 < f /\ f < 710000 THEN "4m"
    ELSE IF 1400000 < f /\ f < 1500000 THEN "2m"
    ELSE IF 4300000 < f /\ f < 4400000 THEN "70cm"
    ELSE ""

\* Lines the cluster node sends that one of the two grammars accepts:
\* grammar, frequency in tenths of a kHz, reconstructed timestamp.
Lines == { [kind |-> "relay", freq |-> 140740, when |-> 2],
           [kind |-> "bulk",  freq |-> 71006,  when |-> 1] }

\* The spot dict built from a matched line.  The relay grammar stores
\* str(int(float(freq))), the bulk grammar int(float(freq)).  dxcc tells
\* whether populate_dxcc has written an enrichment field into the dict.
RelaySpot(l, id) ==
    [id |-> id, kind |-> "relay", ftype |-> "str", frequency |-> l.freq \div 10,
     when |-> l.when, band |-> qrg2band_khz(l.freq), dxcc |-> FALSE]

BulkSpot(l, id) ==
    [id |-> id, kind |-> "bulk", ftype |-> "int", frequency |-> l.freq \div 10,
     when |-> l.when, band |-> qrg2band_khz(l.freq), dxcc |-> FALSE]

NoSpot == [id |-> 0, kind |-> "none", ftype |-> "none", frequency |-> 0,
           when |-> 0, band |-> "", dxcc |-> FALSE]

\* `with _lock:` can be entered (no thread of the model re-enters the RLock)
AcquirableMutNoLock == TRUE

Acquirable == lock = Free

\* The same split for the runs in which progress is checked.
LiveBudgets == { [lines |-> MaxLiveLines, cache |-> MaxLiveOps, link |-> 0,          dx |-> 0],
                 [lines |-> MaxLiveLines, cache |-> 0,          link |-> MaxLiveOps, dx |-> 0] }

\* ------------------------------------------------------ enrichment cache
dxcc_cache_ttl == 3600

\* requests.post(..., timeout=10): seconds a request may stay unanswered
request_timeout == 10

\* call signs looked up, and the threads populate_dxcc runs in
Calls   == {"K1ABC", "DL1XYZ"}
Lookers == {1, 2}

\* The instants, in seconds, at which time.time() is read: the start of a
\* run, one second in, and just before and exactly one TTL after the start.
Instants == {0, 1, 3599, 3600}

\* dxcc_cache.get(call) found nothing
NoEntry == [t |-> -1, ins |-> -1]

IdleLookup == [pc |-> "idle", call |-> "", now |-> 0, tmp |-> 0]

\* dxcc_cache = {}; consecutive_dxcc_errors = 0
DxStart ==
    /\ dxcc_cache = [c \in Calls |-> NoEntry]
    /\ consecutive_dxcc_errors = 0
    /\ clock = 0
    /\ lookup = [e \in Lookers |-> IdleLookup]
    /\ sent = 0
    /\ hist = <<>>

\* no function is being applied
NoArg == [fn |-> "none"]
NoRet == [kind |-> "none"]

FnStart == fnArg = NoArg /\ fnRet = NoRet

\* --------------------------------------------------------------- initially
NewMgr == [pc |-> "unborn", stop |-> FALSE, tn |-> "none", connected |-> FALSE,
           got_login |-> FALSE, polls |-> 0, spot |-> NoSpot, wire |-> <<>>]

IdleWeb == [op |-> "idle", pc |-> "idle", arg |-> 0, idx |-> 0, out |-> <<>>,
            res |-> "none", saw |-> FALSE, wrote |-> FALSE]

\* startup: spots = deque(maxlen=config["maxcache"]); client.start()
Startup ==
    /\ cfgMax = MaxCap
    /\ spots = <<>>
    /\ spotsMaxlen = cfgMax
    /\ lock = Free
    /\ client = 1
    /\ mgr = [m \in Mgrs |-> IF m = 1 THEN [NewMgr EXCEPT !.pc = "guard"] ELSE NewMgr]
    /\ web = [w \in Web |-> IdleWeb]
    /\ nextId = 1

Init == Startup /\ left \in Budgets /\ DxStart /\ FnStart

InitLive == Startup /\ left \in LiveBudgets /\ DxStart /\ FnStart

\* ------------------------------------------------- DXClusterClient.run()
MgrOnly(m, new) ==
    /\ mgr' = [mgr EXCEPT ![m] = new]
    /\ UNCHANGED <<cfgMax, spots, spotsMaxlen, lock, client, web, nextId, left, rest>>

\* while not self._stop_event.is_set(): cfg = load_config()
RunGuard(m) ==
    /\ mgr[m].pc = "guard"
    /\ MgrOnly(m, [mgr[m] EXCEPT !.pc = IF mgr[m].stop THEN "done" ELSE "connect"])

\* self.tn = telnetlib.Telnet(host, port, timeout=15)
ConnectOk(m) ==
    /\ mgr[m].pc = "connect"
    /\ MgrOnly(m, [mgr[m] EXCEPT !.pc = "setconn", !.tn = "open", !.wire = <<>>])

\* the constructor raises: handled by the outer except, self.tn is untouched
ConnectFail(m) ==
    /\ mgr[m].pc = "connect"
    /\ MgrOnly(m, [mgr[m] EXCEPT !.pc = "tail"])

\* self.connected = True; time.sleep(1); got_login = False
SetConnected(m) ==
    /\ mgr[m].pc = "setconn"
    /\ MgrOnly(m, [mgr[m] EXCEPT !.pc = "poll", !.connected = TRUE,
                                 !.got_login = FALSE, !.polls = 0])

\* one round of the login polling loop, no prompt seen yet
PollNothing(m) ==
    /\ mgr[m].pc = "poll"
    /\ mgr[m].tn = "open"
    /\ mgr[m].polls < PollLimit
    /\ MgrOnly(m, [mgr[m] EXCEPT !.polls = @ + 1])

\* a chunk whose last line matches PROMPT_RE
PollPrompt(m) ==
    /\ mgr[m].pc = "poll"
    /\ mgr[m].tn = "open"
    /\ mgr[m].polls < PollLimit
    /\ MgrOnly(m, [mgr[m] EXCEPT !.pc = "login", !.got_login = TRUE, !.polls = 0])

\* the 30 s window ends, or read_very_eager raises EOFError (peer closed the
\* stream, or the connection object was closed by stop)
PollEnd(m) ==
    /\ mgr[m].pc = "poll"
    /\ MgrOnly(m, [mgr[m] EXCEPT !.pc = "login", !.polls = 0])

LoginNoPromptMutSendsCall(m) ==
    /\ mgr[m].pc = "login"
    /\ ~mgr[m].got_login
    /\ MgrOnly(m, [mgr[m] EXCEPT !.pc = "readguard", !.wire = Append(@, "call")])

\* if got_login: self.tn.write(call) -- else proceed to the read loop
LoginNoPrompt(m) ==
    /\ mgr[m].pc = "login"
    /\ ~mgr[m].got_login
    /\ MgrOnly(m, [mgr[m] EXCEPT !.pc = "readguard"])

LoginWriteCall(m) ==
    /\ mgr[m].pc = "login"
    /\ mgr[m].got_login
    /\ mgr[m].tn = "open"
    /\ MgrOnly(m, [mgr[m] EXCEPT !.pc = "login2", !.got_login = FALSE,
                                 !.wire = Append(@, "call")])

\* self.tn.write(b"sh/dx/100\n")
LoginWriteShdx(m) ==
    /\ mgr[m].pc = "login2"
    /\ mgr[m].tn = "open"
    /\ MgrOnly(m, [mgr[m] EXCEPT !.pc = "readguard", !.wire = Append(@, "shdx")])

\* either login write raises (closed connection or a transport failure):
\* the outer except takes over
LoginWriteFail(m) ==
    /\ \/ mgr[m].pc = "login" /\ mgr[m].got_login
       \/ mgr[m].pc = "login2"
    /\ MgrOnly(m, [mgr[m] EXCEPT !.pc = "tail", !.got_login = FALSE])

ReadGuardMutIgnoreStop(m) ==
    /\ mgr[m].pc = "readguard"
    /\ MgrOnly(m, [mgr[m] EXCEPT !.pc = "read"])

\* while not self._stop_event.is_set():
ReadGuard(m) ==
    /\ mgr[m].pc = "readguard"
    /\ MgrOnly(m, [mgr[m] EXCEPT !.pc = IF mgr[m].stop THEN "tail" ELSE "read"])

ReadNoSpotMutHangUp(m) ==
    /\ mgr[m].pc = "read"
    /\ mgr[m].tn = "open"
    /\ MgrOnly(m, [mgr[m] EXCEPT !.pc = "readguard", !.connected = FALSE])

\* read_until returns nothing within 5 s, an empty line, or a line that
\* matches neither TELNET_RE nor SHDX_RE
ReadNoSpot(m) ==
    /\ mgr[m].pc = "read"
    /\ mgr[m].tn = "open"
    /\ MgrOnly(m, [mgr[m] EXCEPT !.pc = "readguard"])

\* a line matched by TELNET_RE or SHDX_RE: the spot dict is built
ReadSpot(m) ==
    /\ mgr[m].pc = "read"
    /\ mgr[m].tn = "open"
    /\ left.lines > 0
    /\ \E l \in Lines :
         mgr' = [mgr EXCEPT ![m].pc = "append",
                            ![m].spot = IF l.kind = "relay" THEN RelaySpot(l, nextId)
                                        ELSE BulkSpot(l, nextId)]
    /\ nextId' = nextId + 1
    /\ left' = [left EXCEPT !.lines = @ - 1]
    /\ UNCHANGED <<cfgMax, spots, spotsMaxlen, lock, client, web, rest>>

\* except EOFError: break
ReadEOF(m) ==
    /\ mgr[m].pc = "read"
    /\ mgr[m].tn = "open"
    /\ MgrOnly(m, [mgr[m] EXCEPT !.pc = "tail"])

\* except Exception: the read raised something else (always so on a
\* connection object that was closed under the reader)
ReadError(m) ==
    /\ mgr[m].pc = "read"
    /\ MgrOnly(m, [mgr[m] EXCEPT !.pc = "lineerr"])

\* logging.error(...); time.sleep(1)
LineErrorSleep(m) ==
    /\ mgr[m].pc = "lineerr"
    /\ MgrOnly(m, [mgr[m] EXCEPT !.pc = "readguard"])

\* with _lock: desired_max = load_config()["maxcache"];
\* if spots.maxlen != desired_max: spots = deque(list(spots), maxlen=desired_max)
RelayResync(m) ==
    /\ mgr[m].pc = "append"
    /\ mgr[m].spot.kind = "relay"
    /\ Acquirable
    /\ lock' = "mgr"
    /\ spotsMaxlen' = cfgMax
    /\ spots' = IF spotsMaxlen # cfgMax THEN DequeNew(spots, cfgMax) ELSE spots
    /\ mgr' = [mgr EXCEPT ![m].pc = "append2"]
    /\ UNCHANGED <<cfgMax, client, web, nextId, left, rest>>

\* spots.append(spot), still inside the with-block; the lock is released
RelayAppend(m) ==
    /\ mgr[m].pc = "append2"
    /\ spots' = DequeAppend(spots, spotsMaxlen, mgr[m].spot)
    /\ lock' = Free
    /\ mgr' = [mgr EXCEPT ![m].pc = "readguard", ![m].spot = NoSpot]
    /\ UNCHANGED <<cfgMax, spotsMaxlen, client, web, nextId, left, rest>>

\* with _lock: spots.append(spot)
AppendBulk(m) ==
    /\ mgr[m].pc = "append"
    /\ mgr[m].spot.kind = "bulk"
    /\ Acquirable
    /\ spots' = DequeAppend(spots, spotsMaxlen, mgr[m].spot)
    /\ mgr' = [mgr EXCEPT ![m].pc = "readguard", ![m].spot = NoSpot]
    /\ UNCHANGED <<cfgMax, spotsMaxlen, lock, client, web, nextId, left, rest>>

\* self.connected = False
TailFlag(m) ==
    /\ mgr[m].pc = "tail"
    /\ MgrOnly(m, [mgr[m] EXCEPT !.pc = "tailclose", !.connected = FALSE])

\* if self.tn: self.tn.close()
TailClose(m) ==
    /\ mgr[m].pc = "tailclose"
    /\ MgrOnly(m, [mgr[m] EXCEPT !.pc = "delay",
                                 !.tn = IF @ = "none" THEN "none" ELSE "closed",
                                 !.wire = <<>>])

ReconnectDelayMutGiveUp(m) ==
    /\ mgr[m].pc = "delay"
    /\ MgrOnly(m, [mgr[m] EXCEPT !.pc = "done"])

\* time.sleep(5)
ReconnectDelay(m) ==
    /\ mgr[m].pc = "delay"
    /\ MgrOnly(m, [mgr[m] EXCEPT !.pc = "guard"])

MgrStep(m) ==
    \/ RunGuard(m) \/ ConnectOk(m) \/ ConnectFail(m) \/ SetConnected(m)
    \/ PollNothing(m) \/ PollPrompt(m) \/ PollEnd(m)
    \/ LoginNoPrompt(m) \/ LoginWriteCall(m) \/ LoginWriteShdx(m) \/ LoginWriteFail(m)
    \/ ReadGuard(m) \/ ReadNoSpot(m) \/ ReadSpot(m) \/ ReadEOF(m) \/ ReadError(m)
    \/ LineErrorSleep(m) \/ RelayResync(m) \/ RelayAppend(m) \/ AppendBulk(m)
    \/ TailFlag(m) \/ TailClose(m) \/ ReconnectDelay(m)

\* ------------------------------------------------ DXClusterClient.stop()
StopSignalMutToggle(c) == [c EXCEPT !.stop = ~@]

\* self._stop_event.set()
StopSignal(c) == [c EXCEPT !.stop = TRUE]

\* try: if self.tn: self.tn.close() -- except Exception: pass
StopClose(c) == [c EXCEPT !.tn = IF @ = "none" THEN "none" ELSE "closed",
                          !.wire = <<>>]

stop(c) == StopClose(StopSignal(c))

\* ------------------------------------------------------- serving layer
WebOnly(w, new) ==
    /\ web' = [web EXCEPT ![w] = new]
    /\ UNCHANGED <<cfgMax, spots, spotsMaxlen, lock, client, mgr, nextId, rest>>

\* the threads of the serving layer are interchangeable: a request is taken
\* by the first idle one
FirstIdle(w) == web[w].op = "idle" /\ (w = "w2" => web["w1"].op # "idle")

CanStartCache(w) == FirstIdle(w) /\ left.cache > 0

CanStartLink(w) == FirstIdle(w) /\ left.link > 0

UseCache == left' = [left EXCEPT !.cache = @ - 1]

UseLink == left' = [left EXCEPT !.link = @ - 1]

\* the configuration file is edited outside the program
EditConfigFile(k) ==
    /\ left.cache > 0
    /\ k # cfgMax
    /\ cfgMax' = k
    /\ UseCache
    /\ UNCHANGED <<spots, spotsMaxlen, lock, client, mgr, web, nextId, rest>>

\* portal_config: cfg["maxcache"] = int(form...); save_config(cfg)
PortalConfigSave(w, k) ==
    /\ CanStartCache(w)
    /\ cfgMax' = k
    /\ web' = [web EXCEPT ![w] = [IdleWeb EXCEPT !.op = "config", !.pc = "resize", !.arg = k]]
    /\ UseCache
    /\ UNCHANGED <<spots, spotsMaxlen, lock, client, mgr, nextId, rest>>

\* portal_config: with _lock: spots = deque(list(spots), maxlen=cfg["maxcache"])
\* (out holds the temporary list(spots))
PortalConfigResize(w) ==
    /\ web[w].op = "config" /\ web[w].pc = "resize"
    /\ Acquirable
    /\ spots' = DequeNew(spots, web[w].arg)
    /\ spotsMaxlen' = web[w].arg
    /\ web' = [web EXCEPT ![w].pc = "ret", ![w].out = spots]
    /\ UNCHANGED <<cfgMax, lock, client, mgr, nextId, left, rest>>

\* return redirect(url_for("portal_index"))
PortalConfigReturn(w) ==
    /\ web[w].op = "config" /\ web[w].pc = "ret"
    /\ WebOnly(w, IdleWeb)
    /\ UNCHANGED left

\* ---- full-collection reads: api_spots, api_spots_band, api_spot
Bands   == {"20m", "40m"}
QrgKhz  == {14074, 7100}

\* order in which a handler walks the deque
Order(op, s) == IF op = "api_spots" THEN Reverse(s) ELSE s

\* what a handler does with one record s, result so far acc
Visit(op, arg, acc, s) ==
    IF op = "api_spots" THEN Append(acc, s)
    ELSE IF op = "api_spots_band" THEN (IF s.band = arg THEN Append(acc, s) ELSE acc)
    ELSE IF s.ftype = "str" /\ s.frequency = arg
              THEN (IF acc = <<>> \/ s.when > acc[1].when THEN <<s>> ELSE acc)
    ELSE acc

ReadOps == {"api_spots", "api_spots_band", "api_spot"}

BeginRead(w, op, arg) ==
    /\ CanStartCache(w)
    /\ Acquirable
    /\ lock' = w
    /\ web' = [web EXCEPT ![w] = [IdleWeb EXCEPT !.op = op, !.pc = "iter", !.arg = arg, !.idx = 1]]
    /\ UseCache
    /\ UNCHANGED <<cfgMax, spots, spotsMaxlen, client, mgr, nextId, rest>>

\* with _lock: for s in reversed(spots)
api_spots(w) == BeginRead(w, "api_spots", 0)

\* with _lock: [s for s in spots if s.get("band") == band]
api_spots_band(w, b) == BeginRead(w, "api_spots_band", b)

\* q = str(qrg_khz); with _lock: for s in spots
api_spot(w, q) == BeginRead(w, "api_spot", q)

\* one iteration of the handler's loop over the deque
ReadIter(w) ==
    /\ web[w].op \in ReadOps /\ web[w].pc = "iter"
    /\ web[w].idx <= Len(spots)
    /\ WebOnly(w, [web[w] EXCEPT !.idx = @ + 1,
                   !.out = Visit(web[w].op, web[w].arg, @, Order(web[w].op, spots)[web[w].idx])])
    /\ UNCHANGED left

\* the loop is over: the response is built and the lock released
ReadReturn(w) ==
    /\ web[w].op \in ReadOps /\ web[w].pc = "iter"
    /\ web[w].idx > Len(spots)
    /\ lock' = Free
    /\ web' = [web EXCEPT ![w] = IdleWeb]
    /\ UNCHANGED <<cfgMax, spots, spotsMaxlen, client, mgr, nextId, left, rest>>

\* ---- send_spot and send_telnet_cmd
SendOps == {"send_spot", "send_telnet_cmd"}

send_spot_MutNoCheck(w) ==
    /\ CanStartLink(w)
    /\ web' = [web EXCEPT ![w] = [IdleWeb EXCEPT !.op = "send_spot", !.pc = "chk_tn",
                                                 !.saw = mgr[client].connected]]
    /\ UseLink
    /\ UNCHANGED <<cfgMax, spots, spotsMaxlen, lock, client, mgr, nextId, rest>>

\* send_spot: if not client.connected ...: return False
send_spot(w) ==
    /\ CanStartLink(w)
    /\ web' = [web EXCEPT ![w] =
                 IF mgr[client].connected
                 THEN [IdleWeb EXCEPT !.op = "send_spot", !.pc = "chk_tn", !.saw = TRUE]
                 ELSE [IdleWeb EXCEPT !.op = "send_spot", !.pc = "ret", !.res = "fail"]]
    /\ UseLink
    /\ UNCHANGED <<cfgMax, spots, spotsMaxlen, lock, client, mgr, nextId, rest>>

\* send_telnet_cmd: with _lock: if not client.connected ...: return error
send_telnet_cmd(w) ==
    /\ CanStartLink(w)
    /\ Acquirable
    /\ lock' = w
    /\ web' = [web EXCEPT ![w] =
                 IF mgr[client].connected
                 THEN [IdleWeb EXCEPT !.op = "send_telnet_cmd", !.pc = "chk_tn", !.saw = TRUE]
                 ELSE [IdleWeb EXCEPT !.op = "send_telnet_cmd", !.pc = "ret", !.res = "fail"]]
    /\ UseLink
    /\ UNCHANGED <<cfgMax, spots, spotsMaxlen, client, mgr, nextId, rest>>

\* ... or not client.tn: return failure
SendCheckTn(w) ==
    /\ web[w].op \in SendOps /\ web[w].pc = "chk_tn"
    /\ WebOnly(w, IF mgr[client].tn = "none"
                  THEN [web[w] EXCEPT !.pc = "ret", !.res = "fail"]
                  ELSE [web[w] EXCEPT !.pc = "write"])
    /\ UNCHANGED left

\* client.tn.write(cmd.encode()) succeeds
SendWriteOk(w) ==
    /\ web[w].op \in SendOps /\ web[w].pc = "write"
    /\ mgr[client].tn = "open"
    /\ mgr' = [mgr EXCEPT ![client].wire = Append(@, web[w].op)]
    /\ web' = [web EXCEPT ![w] = [web[w] EXCEPT !.pc = "ret", !.res = "ok", !.wrote = TRUE]]
    /\ UNCHANGED <<cfgMax, spots, spotsMaxlen, lock, client, nextId, left, rest>>

\* the write raises (no connection object, a closed one, or a transport
\* failure): except Exception: return failure
SendWriteFail(w) ==
    /\ web[w].op \in SendOps /\ web[w].pc = "write"
    /\ WebOnly(w, [web[w] EXCEPT !.pc = "ret", !.res = "fail"])
    /\ UNCHANGED left

\* the handler returns; send_telnet_cmd leaves its with-block
SendReturn(w) ==
    /\ web[w].op \in SendOps /\ web[w].pc = "ret"
    /\ lock' = IF web[w].op = "send_telnet_cmd" THEN Free ELSE lock
    /\ web' = [web EXCEPT ![w] = IdleWeb]
    /\ UNCHANGED <<cfgMax, spots, spotsMaxlen, client, mgr, nextId, left, rest>>

\* ---- restart_client
\* with _lock: client.stop() -- first statement of stop
RestartStopSignal(w) ==
    /\ CanStartLink(w)
    /\ client < MaxMgrs
    /\ Acquirable
    /\ lock' = w
    /\ mgr' = [mgr EXCEPT ![client] = StopSignal(@)]
    /\ web' = [web EXCEPT ![w] = [IdleWeb EXCEPT !.op = "restart_client", !.pc = "close"]]
    /\ UseLink
    /\ UNCHANGED <<cfgMax, spots, spotsMaxlen, client, nextId, rest>>

\* client.stop() -- the close; then time.sleep(0.5)
RestartStopClose(w) ==
    /\ web[w].op = "restart_client" /\ web[w].pc = "close"
    /\ mgr' = [mgr EXCEPT ![client] = StopClose(@)]
    /\ web' = [web EXCEPT ![w].pc = "swap"]
    /\ UNCHANGED <<cfgMax, spots, spotsMaxlen, lock, client, nextId, left, rest>>

\* client = DXClusterClient(); client.start(); the lock is released
RestartSwap(w) ==
    /\ web[w].op = "restart_client" /\ web[w].pc = "swap"
    /\ client' = client + 1
    /\ mgr' = [mgr EXCEPT ![client + 1] = [NewMgr EXCEPT !.pc = "guard"]]
    /\ lock' = Free
    /\ web' = [web EXCEPT ![w] = IdleWeb]
    /\ UNCHANGED <<cfgMax, spots, spotsMaxlen, nextId, left, rest>>

WebStep(w) ==
    \/ \E k \in Capacities : PortalConfigSave(w, k)
    \/ PortalConfigResize(w) \/ PortalConfigReturn(w)
    \/ api_spots(w)
    \/ \E b \in Bands : api_spots_band(w, b)
    \/ \E q \in QrgKhz : api_spot(w, q)
    \/ ReadIter(w) \/ ReadReturn(w)
    \/ send_spot(w) \/ send_telnet_cmd(w)
    \/ SendCheckTn(w) \/ SendWriteOk(w) \/ SendWriteFail(w) \/ SendReturn(w)
    \/ RestartStopSignal(w) \/ RestartStopClose(w) \/ RestartSwap(w)

Next ==
    \/ \E m \in Mgrs : MgrStep(m)
    \/ \E w \in Web : WebStep(w)
    \/ \E k \in Capacities : EditConfigFile(k)

Spec == Init /\ [][Next]_vars

\* A request that has started runs to its end, and every step of run()
\* returns: connect, the polling window, each read and each sleep time out.
WebContinue(w) ==
    \/ PortalConfigResize(w) \/ PortalConfigReturn(w)
    \/ ReadIter(w) \/ ReadReturn(w)
    \/ SendCheckTn(w) \/ SendWriteOk(w) \/ SendWriteFail(w) \/ SendReturn(w)
    \/ RestartStopClose(w) \/ RestartSwap(w)

Fairness ==
    /\ \A m \in Mgrs : WF_vars(MgrStep(m))
    /\ \A w \in Web : WF_vars(WebContinue(w))

FairSpec == InitLive /\ [][Next]_vars /\ Fairness

\* -------------------------------------------------------- populate_dxcc
\* Runs in which the enrichment threads write into the spot dicts: one
\* that exercises the cache and gets look-up answers, one that exercises
\* the link.
IngestBudgets ==
    { [lines |-> MaxIngestLines, cache |-> MaxIngestOps, link |-> 0, dx |-> MaxIngestOps],
      [lines |-> MaxIngestLines, cache |-> 0, link |-> MaxIngestOps, dx |-> 0] }

InitIngest == Startup /\ left \in IngestBudgets /\ DxStart /\ FnStart

\* threading.Thread(target=populate_dxcc, args=(spot,)).start() calls made
Dispatched == nextId - 1

EnrichedMutDrop(seq, i) == SelectSeq(seq, LAMBDA r : r.id # i)

\* every reference to the dict of record i sees the write
Enriched(seq, i) ==
    [k \in 1..Len(seq) |-> IF seq[k].id = i THEN [seq[k] EXCEPT !.dxcc = TRUE] ELSE seq[k]]

\* the thread started for record i got an answer:
\* spot["dxcc_spotter"] = s1 / spot["dxcc_spotted"] = s2, without _lock
PopulateDxcc(i) ==
    /\ i <= Dispatched
    /\ left.dx > 0
    /\ \/ \E k \in 1..Len(spots) : spots[k].id = i /\ ~spots[k].dxcc
       \/ \E m \in Mgrs : mgr[m].spot.id = i /\ ~mgr[m].spot.dxcc
    /\ spots' = Enriched(spots, i)
    /\ mgr' = [m \in Mgrs |-> IF mgr[m].spot.id = i
                               THEN [mgr[m] EXCEPT !.spot.dxcc = TRUE] ELSE mgr[m]]
    /\ web' = [w \in Web |-> [web[w] EXCEPT !.out = Enriched(@, i)]]
    /\ left' = [left EXCEPT !.dx = @ - 1]
    /\ UNCHANGED <<cfgMax, spotsMaxlen, lock, client, nextId, rest>>

IngestNext ==
    \/ Next
    \/ \E i \in 1..MaxIngestLines : PopulateDxcc(i)

IngestSpec == InitIngest /\ [][IngestNext]_vars

\* ----------------------------------------------------------- dxcc_lookup
\* A run of the enrichment cache alone: the spot cache and the link stay
\* as they are at startup.
NoBudget == [lines |-> 0, cache |-> 0, link |-> 0, dx |-> 0]

DxInit == Startup /\ left = NoBudget /\ DxStart /\ FnStart

DxOnly(e, new) ==
    /\ lookup' = [lookup EXCEPT ![e] = new]
    /\ UNCHANGED <<core, clock, fnArg, fnRet>>

\* lookups begun so far
Begun == Len(hist) + Cardinality({e \in Lookers : lookup[e].pc \in {"request", "count"}})

\* populate_dxcc calls dxcc_lookup in the lowest-numbered free thread
FreeLooker(e) ==
    /\ lookup[e].pc = "idle"
    /\ \A o \in Lookers : lookup[o].pc = "idle" => ~(o < e)
    /\ Begun < MaxLookups

\* cached and (now - cached["t"]) < dxcc_cache_ttl
FreshMutInclusive(c) ==
    /\ dxcc_cache[c] # NoEntry
    /\ clock - dxcc_cache[c].t <= dxcc_cache_ttl

Fresh(c) ==
    /\ dxcc_cache[c] # NoEntry
    /\ clock - dxcc_cache[c].t < dxcc_cache_ttl

\* now = time.time(); the entry is fresh: return cached["v"]
CacheHit(e, c) ==
    /\ FreeLooker(e)
    /\ Fresh(c)
    /\ hist' = Append(hist, [call |-> c, at |-> clock, out |-> "hit"])
    /\ UNCHANGED <<core, dxcc_cache, consecutive_dxcc_errors, clock, lookup, sent,
                   fnArg, fnRet>>

\* no fresh entry: requests.post(url, json=payload, timeout=10) is issued
CacheMiss(e, c) ==
    /\ FreeLooker(e)
    /\ ~Fresh(c)
    /\ sent' = sent + 1
    /\ DxOnly(e, [IdleLookup EXCEPT !.pc = "request", !.call = c, !.now = clock])
    /\ UNCHANGED <<dxcc_cache, consecutive_dxcc_errors, hist>>

\* resp.ok: dxcc_cache[call] = {"v": result, "t": now}, with the `now` read
\* when the lookup began; `ins` notes when the entry is put in
StoreEntry(e) ==
    /\ lookup[e].pc = "request"
    /\ dxcc_cache' = [dxcc_cache EXCEPT ![lookup[e].call] =
                                        [t |-> lookup[e].now, ins |-> clock]]
    /\ hist' = Append(hist, [call |-> lookup[e].call, at |-> lookup[e].now, out |-> "ok"])
    /\ DxOnly(e, [lookup[e] EXCEPT !.pc = "reset"])
    /\ UNCHANGED <<consecutive_dxcc_errors, sent>>

\* consecutive_dxcc_errors = 0; return result
ResetErrors(e) ==
    /\ lookup[e].pc = "reset"
    /\ consecutive_dxcc_errors' = 0
    /\ DxOnly(e, IdleLookup)
    /\ UNCHANGED <<dxcc_cache, sent, hist>>

\* not resp.ok, or requests.post / resp.json raised: the first half of
\* consecutive_dxcc_errors += 1 reads the global
RequestFailed(e) ==
    /\ lookup[e].pc = "request"
    /\ DxOnly(e, [lookup[e] EXCEPT !.pc = "count", !.tmp = consecutive_dxcc_errors])
    /\ UNCHANGED <<dxcc_cache, consecutive_dxcc_errors, sent, hist>>

\* the second half stores the sum; return None
CountError(e) ==
    /\ lookup[e].pc = "count"
    /\ consecutive_dxcc_errors' = lookup[e].tmp + 1
    /\ hist' = Append(hist, [call |-> lookup[e].call, at |-> lookup[e].now, out |-> "fail"])
    /\ DxOnly(e, IdleLookup)
    /\ UNCHANGED <<dxcc_cache, sent>>

\* time passes, no more than the request timeout while a lookup is under way
Tick ==
    /\ \E i \in Instants :
         /\ i > clock
         /\ \A e \in Lookers :
               lookup[e].pc # "idle" => i - lookup[e].now <= request_timeout
         /\ clock' = i
    /\ UNCHANGED <<core, dxcc_cache, consecutive_dxcc_errors, lookup, sent, hist,
                   fnArg, fnRet>>

LookupStep(e) ==
    \/ \E c \in Calls : CacheHit(e, c) \/ CacheMiss(e, c)
    \/ StoreEntry(e) \/ ResetErrors(e)
    \/ RequestFailed(e) \/ CountError(e)

DxNext ==
    \/ \E e \in Lookers : LookupStep(e)
    \/ Tick

DxSpec == DxInit /\ [][DxNext]_vars

\* ------------------------------------------- parse_z_time, qrg2band_khz
\* The HHMM literal after timestr.rstrip("Z"), a sequence of digits: three
\* or four as TELNET_RE passes them, and one shorter and one longer one.
TimeLiterals ==
    {<<a, b, c>> : a \in 0..9, b \in {0, 5, 6, 9}, c \in {0, 5, 9}}
    \cup {<<a, b, c, d>> : a \in {0, 1, 2, 9}, b \in {0, 2, 3, 4, 9},
                           c \in {0, 5, 6}, d \in {0, 5, 9}}
    \cup {<<1, 2>>, <<0, 1, 2, 3, 0>>}

\* datetime.now(timezone.utc): a day number and the minute of that day
\* (seconds and microseconds are copied into the result unchanged)
Nows == [day : {1}, min : {0, 5, 10, 719, 720, 721, 1439}]

\* int(t[0]) / int(t[0:2]) and int(t[1:3]) / int(t[2:4])
Hour(t)   == IF Len(t) = 3 THEN t[1] ELSE 10 * t[1] + t[2]
Minute(t) == IF Len(t) = 3 THEN 10 * t[2] + t[3] ELSE 10 * t[3] + t[4]

parse_z_time_MutFrom12h(t, now) ==
    IF Len(t) \in {3, 4}
    THEN IF Hour(t) > 23 \/ Minute(t) > 59
         THEN [kind |-> "ValueError"]
         ELSE [kind |-> "time",
               day  |-> IF 60 * Hour(t) + Minute(t) - now.min >= 720
                        THEN now.day - 1 ELSE now.day,
               min  |-> 60 * Hour(t) + Minute(t)]
    ELSE [kind |-> "time", day |-> now.day, min |-> now.min]

\* datetime(now.year, now.month, now.day, hh, mm, ...) raises ValueError
\* for an hour above 23 or a minute above 59; when - now > 12 h moves the
\* result back one day
parse_z_time(t, now) ==
    IF Len(t) \in {3, 4}
    THEN IF Hour(t) > 23 \/ Minute(t) > 59
         THEN [kind |-> "ValueError"]
         ELSE [kind |-> "time",
               day  |-> IF 60 * Hour(t) + Minute(t) - now.min > 720
                        THEN now.day - 1 ELSE now.day,
               min  |-> 60 * Hour(t) + Minute(t)]
    ELSE [kind |-> "time", day |-> now.day, min |-> now.min]

\* the ranges of qrg2band_khz in kHz, both ends excluded
BandTable ==
    { [lo |-> 1000,   hi |-> 2000,   label |-> "160m"],
      [lo |-> 3000,   hi |-> 4000,   label |-> "80m"],
      [lo |-> 6000,   hi |-> 8000,   label |-> "40m"],
      [lo |-> 9000,   hi |-> 11000,  label |-> "30m"],
      [lo |-> 13000,  hi |-> 15000,  label |-> "20m"],
      [lo |-> 17000,  hi |-> 19000,  label |-> "17m"],
      [lo |-> 20000,  hi |-> 22000,  label |-> "15m"],
      [lo |-> 23000,  hi |-> 25000,  label |-> "12m"],
      [lo |-> 27000,  hi |-> 30000,  label |-> "10m"],
      [lo |-> 49000,  hi |-> 52000,  label |-> "6m"],
      [lo |-> 69000,  hi |-> 71000,  label |-> "4m"],
      [lo |-> 140000, hi |-> 150000, label |-> "2m"],
      [lo |-> 430000, hi |-> 440000, label |-> "70cm"] }

\* Arguments given to qrg2band_khz: numbers in tenths of a kHz at and next
\* to every range end, the four values of the examples, zero and a negative
\* number; the floats nan and inf; and text that float() rejects.
Qrgs ==
    [kind : {"number"},
     f : UNION {{10 * b.lo - 1, 10 * b.lo, 10 * b.lo + 1,
                 10 * b.hi - 1, 10 * b.hi, 10 * b.hi + 1} : b \in BandTable}
         \cup {140740, 9990, 15000, 71000, 0, -10}]
    \cup [kind : {"nan", "inf", "text"}, f : {0}]

qrg2band_MutNoTry(x) ==
    IF x.kind = "number" THEN qrg2band_khz(x.f) ELSE "ValueError"

\* try: f = float(qrg_khz) / except Exception: return ""; nan and inf
\* compare false with every range
qrg2band(x) ==
    IF x.kind = "number" THEN qrg2band_khz(x.f) ELSE ""

\* The <freq> of a relay line, [0-9]+\.?[0-9]*, in tenths of a kHz: every
\* first decimal of 14074 kHz and a few other values.
RelayFreqs == 140740..140749 \cup {0, 4, 6, 9, 71006, 19996}

\* str(k) for an integer k >= 0, as its decimal digits
RECURSIVE DigitsOf(_)
DigitsOf(k) == IF k < 10 THEN <<k>> ELSE Append(DigitsOf(k \div 10), k % 10)

\* str(int(float(freq))): int() drops the fraction
relay_frequency(f) == DigitsOf(f \div 10)

FnArgs ==
    [fn : {"parse_z_time"}, timestr : TimeLiterals, now : Nows]
    \cup [fn : {"qrg2band_khz"}, qrg : Qrgs]
    \cup [fn : {"relay_frequency"}, freq : RelayFreqs]

FnInit == Startup /\ left = NoBudget /\ DxStart /\ fnArg \in FnArgs /\ fnRet = NoRet

\* when = parse_z_time(m.group("time"))
CallParseZTime ==
    /\ fnArg.fn = "parse_z_time"
    /\ fnRet = NoRet
    /\ fnRet' = parse_z_time(fnArg.timestr, fnArg.now)
    /\ UNCHANGED <<core, dxcc_cache, consecutive_dxcc_errors, clock, lookup, sent,
                   hist, fnArg>>

\* "band": qrg2band_khz(freq_khz)
CallQrg2Band ==
    /\ fnArg.fn = "qrg2band_khz"
    /\ fnRet = NoRet
    /\ fnRet' = [kind |-> "band", label |-> qrg2band(fnArg.qrg)]
    /\ UNCHANGED <<core, dxcc_cache, consecutive_dxcc_errors, clock, lookup, sent,
                   hist, fnArg>>

\* "frequency": str(int(float(freq)))
CallRelayFrequency ==
    /\ fnArg.fn = "relay_frequency"
    /\ fnRet = NoRet
    /\ fnRet' = [kind |-> "frequency", digits |-> relay_frequency(fnArg.freq)]
    /\ UNCHANGED <<core, dxcc_cache, consecutive_dxcc_errors, clock, lookup, sent,
                   hist, fnArg>>

FnNext == CallParseZTime \/ CallQrg2Band \/ CallRelayFrequency

FnSpec == FnInit /\ [][FnNext]_vars

\* ================================================================ claims
\* a manager performs spots.append in this step (relay or bulk path)
AppendStep(m) ==
    /\ mgr'[m].pc = "readguard"
    /\ \/ mgr[m].pc = "append2"
       \/ mgr[m].pc = "append" /\ mgr[m].spot.kind = "bulk"

\* C1 (as claimed): in every reachable state the number of records in the
\* Spot Cache is at most the maxcache value of the current configuration.
C1_SizeWithinConfiguredCapacity == Len(spots) <= cfgMax

\* C2 (as claimed): an append to a cache that holds exactly capacity records
\* removes the oldest record and puts the new record at the newest end.
C2_Original_AppendAtCapacity ==
    [][\A m \in Mgrs :
         (AppendStep(m) /\ Len(spots) = spotsMaxlen)
            => spots' = SubSeq(spots, 2, Len(spots)) \o <<mgr[m].spot>>]_vars

\* C2 (amended): an append to a cache whose capacity is at least 1 and that
\* holds exactly capacity records removes exactly the oldest record, puts the
\* new record at the newest end and keeps the order of the others; below
\* capacity it only adds the record at the newest end; so the size never
\* exceeds the capacity.  (A relay append first re-syncs the capacity with the
\* configuration: the capacity meant is the one in force after the re-sync.)
C2_AppendEvictsOldest ==
    [][\A m \in Mgrs :
         (AppendStep(m) /\ spotsMaxlen >= 1)
            => /\ Len(spots) <= spotsMaxlen
               /\ spots' = (IF Len(spots) = spotsMaxlen
                            THEN SubSeq(spots, 2, Len(spots)) ELSE spots)
                           \o <<mgr[m].spot>>]_vars

\* capacity+1 appends to an empty cache of capacity 2 left the last two
C2_Witness ==
    /\ spotsMaxlen = 2 /\ cfgMax = 2
    /\ Len(spots) = 2 /\ spots[1].id = 2 /\ spots[2].id = 3

\* a resize happens in this step: portal_config or the relay re-sync
ResizeStep ==
    \/ \E w \in Web : web[w].op = "config" /\ web[w].pc = "resize" /\ web'[w].pc = "ret"
    \/ \E m \in Mgrs : mgr[m].pc = "append" /\ mgr'[m].pc = "append2"

\* C3: a resize to capacity k of a cache holding n records keeps exactly the
\* min(n, k) most recently inserted records in their insertion order, on both
\* resize paths.
C3_ResizeKeepsNewest ==
    [][ResizeStep =>
          LET n == Len(spots)
              k == spotsMaxlen'
              r == Min(n, k)
          IN /\ Len(spots') = r
             /\ \A i \in 1..r : spots'[i] = spots[n - r + i]]_vars

\* portal_config has just shrunk a cache of two records to capacity 1
C3_Witness ==
    \E w \in Web :
        /\ web[w].op = "config" /\ web[w].pc = "ret"
        /\ web[w].arg = 1 /\ Len(web[w].out) = 2
        /\ spots = <<web[w].out[2]>>

\* what a handler returns for cache contents s
RECURSIVE Fold(_, _, _, _)
Fold(op, arg, acc, s) ==
    IF s = <<>> THEN acc ELSE Fold(op, arg, Visit(op, arg, acc, Head(s)), Tail(s))

\* C4: every full-collection read is computed from the cache contents of one
\* single instant: at each point of its loop the handler's partial result is
\* what the current contents give for the part already walked, and the
\* complete result of api_spots is the current contents newest first.
C4_ReadsAreAtomic ==
    \A w \in Web :
        (web[w].op \in ReadOps /\ web[w].pc = "iter") =>
            /\ web[w].idx <= Len(spots) + 1
            /\ web[w].out = Fold(web[w].op, web[w].arg, <<>>,
                                 SubSeq(Order(web[w].op, spots), 1, web[w].idx - 1))
            /\ (web[w].op = "api_spots" /\ web[w].idx = Len(spots) + 1)
                  => web[w].out = Reverse(spots)

\* api_spots has walked two records while the manager waits to append a third
C4_Witness ==
    \E w \in Web :
        /\ web[w].op = "api_spots" /\ web[w].pc = "iter"
        /\ Len(spots) = 2 /\ web[w].idx = 3
        /\ web[w].out[1].id > web[w].out[2].id
        /\ \E m \in Mgrs : mgr[m].pc = "append"

C6_NoSessionMeansFlagFalse ==
    mgr[client].tn # "open" => ~mgr[client].connected

\* C7: while stop has not been called, an exit from the read loop or a failed
\* connection attempt (run() is at its tail) is followed, in this order, by
\* the flag being false, the connection being closed, the delay, and a new
\* connection attempt.
C7_ReconnectSequence ==
    \A m \in Mgrs :
        [](mgr[m].pc = "tail" =>
            <>(/\ mgr[m].pc = "tailclose" /\ ~mgr[m].connected
               /\ <>(/\ mgr[m].pc = "delay" /\ ~mgr[m].connected /\ mgr[m].tn # "open"
                     /\ <>(mgr[m].pc = "connect" \/ mgr[m].stop))))

\* a manager that has closed a connection is making a new attempt
C7_Witness ==
    \E m \in Mgrs : mgr[m].pc = "connect" /\ mgr[m].tn = "closed" /\ ~mgr[m].stop

\* C8 (as claimed): every transport error -- a failed connect, end-of-stream
\* or a failed login write (run() is at its tail), a failing read (run() is in
\* its per-line handler) -- is eventually followed by a new connection attempt
\* unless stop is called, and the task ends only when stopped.
C8_TransportErrorsReconnect ==
    \A m \in Mgrs :
        /\ [](mgr[m].pc \in {"tail", "lineerr"} => <>(mgr[m].pc = "connect" \/ mgr[m].stop))
        /\ [](mgr[m].pc = "done" => mgr[m].stop)

\* C9: after stop is called the manager task terminates, whatever phase it
\* was in.
C9_StopTerminates ==
    \A m \in Mgrs : mgr[m].stop ~> mgr[m].pc = "done"

\* a stopped manager has left run()
C9_Witness ==
    \E m \in Mgrs : mgr[m].stop /\ mgr[m].pc = "done"

\* C10: stop is idempotent: in every state of a manager, a second call leaves
\* what the first call left -- stop signal set, no open connection.
C10_StopIdempotent ==
    \A m \in Mgrs :
        /\ stop(stop(mgr[m])) = stop(mgr[m])
        /\ stop(mgr[m]).stop
        /\ stop(mgr[m]).tn # "open"
        /\ (mgr[m].stop /\ mgr[m].tn # "open") => stop(mgr[m]) = mgr[m]

\* stop has been called on a manager that never connected
C10_Witness ==
    \E m \in Mgrs : mgr[m].stop /\ mgr[m].tn = "none" /\ mgr[m].pc # "unborn"

\* ------------------------------------------------------ enrichment claims
\* dxcc_lookup(c) begins in this step
LookupBegins(e, c) == CacheHit(e, c) \/ CacheMiss(e, c)

\* the step answers from the cache and sends nothing
AnsweredFromCache == /\ Len(hist') = Len(hist) + 1
                     /\ hist'[Len(hist')].out = "hit"
                     /\ sent' = sent

\* the step sends exactly one request to the look-up service
OneOutboundCall(e) == lookup'[e].pc = "request" /\ sent' = sent + 1

\* lookups of c whose result was stored
Stored(c) == {i \in 1..Len(hist) : hist[i].call = c /\ hist[i].out = "ok"}

\* the lookup of c that stored its result last began less than one TTL ago
StoredWithinTTL(c) ==
    /\ Stored(c) # {}
    /\ LET i == CHOOSE i \in Stored(c) : \A j \in Stored(c) : j <= i
       IN  clock - hist[i].at < dxcc_cache_ttl

\* C11 as written: of two lookups of one call sign that begin less than one
\* TTL apart, the first sends an outbound call and the second is answered
\* from the cache, whatever the first one's outcome.
C11_Original_OneCallPerWindow ==
    \A i, j \in 1..Len(hist) :
        ( /\ i < j
          /\ hist[i].call = hist[j].call
          /\ hist[i].out # "hit"
          /\ hist[j].at - hist[i].at \in 0..(dxcc_cache_ttl - 1) )
        => hist[j].out = "hit"

\* C11 amended: a lookup is answered from the cache, with no outbound call,
\* exactly when the lookup of the same call sign that stored its result last
\* began less than one TTL before; every other lookup (nothing stored yet,
\* or TTL expired) sends exactly one outbound call.
C11_CachedWithinTTL ==
    [][\A e \in Lookers, c \in Calls :
          LookupBegins(e, c) =>
              IF StoredWithinTTL(c) THEN AnsweredFromCache ELSE OneOutboundCall(e)]_vars

\* a stored result, a cache answer inside its window, a new call after it
C11_Witness ==
    \E i, j, k \in 1..Len(hist) :
        /\ i < j /\ j < k
        /\ hist[i].call = hist[j].call /\ hist[j].call = hist[k].call
        /\ hist[i].out = "ok" /\ hist[j].out = "hit" /\ hist[k].out # "hit"
        /\ hist[j].at - hist[i].at < dxcc_cache_ttl
        /\ hist[k].at - hist[i].at >= dxcc_cache_ttl

\* C12: a lookup is answered from the cache exactly while less than one TTL
\* has passed since the entry was inserted.
C12_ServedUntilTTLAfterInsertion ==
    [][\A e \in Lookers, c \in Calls :
          LookupBegins(e, c) =>
              ( CacheHit(e, c) <=> /\ dxcc_cache[c] # NoEntry
                                   /\ clock - dxcc_cache[c].ins < dxcc_cache_ttl )]_vars

\* C13: a lookup whose request fails returns unavailable, stores nothing and
\* raises the error counter by one; a lookup that misses the cache sends
\* exactly one outbound request whatever the counter's value.
C13_FailureCountedNeverSuppresses ==
    [][\A e \in Lookers :
          /\ CountError(e) => /\ hist'[Len(hist')].out = "fail"
                              /\ dxcc_cache' = dxcc_cache
                              /\ consecutive_dxcc_errors' = consecutive_dxcc_errors + 1
          /\ \A c \in Calls :
                (LookupBegins(e, c) /\ ~AnsweredFromCache) => OneOutboundCall(e)]_vars

\* ---------------------------------------------------- function claims
Parsed == fnArg.fn = "parse_z_time" /\ fnRet # NoRet

\* the literal spells an hour and a minute
HourMinute(t) == Len(t) \in {3, 4} /\ Hour(t) <= 23 /\ Minute(t) <= 59

\* minutes from `now` to the returned timestamp
Ahead == (1440 * fnRet.day + fnRet.min) - (1440 * fnArg.now.day + fnArg.now.min)

\* C14: for an hour:minute literal the result is the current date with the
\* parsed hour and minute, moved back exactly one day if and only if that
\* is more than 12 h ahead of now, so it is never more than 12 h ahead;
\* "2359Z" at 00:05 gives the previous day, "0005Z" at 00:10 the same day.
C14_TwelveHourRollback ==
    (Parsed /\ HourMinute(fnArg.timestr)) =>
        LET hhmm == 60 * Hour(fnArg.timestr) + Minute(fnArg.timestr)
        IN  /\ fnRet.kind = "time"
            /\ fnRet.min = hhmm
            /\ fnRet.day \in {fnArg.now.day, fnArg.now.day - 1}
            /\ fnRet.day = fnArg.now.day - 1 <=> hhmm - fnArg.now.min > 12 * 60
            /\ Ahead <= 12 * 60
            /\ (fnArg.timestr = <<2, 3, 5, 9>> /\ fnArg.now.min = 5)
                   => fnRet.day = fnArg.now.day - 1
            /\ (fnArg.timestr = <<0, 0, 0, 5>> /\ fnArg.now.min = 10)
                   => fnRet.day = fnArg.now.day

\* "2359Z" parsed at 00:05
C14_Witness ==
    /\ Parsed
    /\ fnArg.timestr = <<2, 3, 5, 9>> /\ fnArg.now.min = 5
    /\ fnRet.kind = "time" /\ fnRet.day = fnArg.now.day - 1

\* C15: parse_z_time never raises: a literal of another length than 3 or 4
\* gives `now`, every literal of 3 or 4 digits gives a timestamp.
C15_NeverRaises ==
    Parsed =>
        /\ fnRet.kind = "time"
        /\ Len(fnArg.timestr) \notin {3, 4} =>
              (fnRet.day = fnArg.now.day /\ fnRet.min = fnArg.now.min)

Banded == fnArg.fn = "qrg2band_khz" /\ fnRet # NoRet

\* the declared ranges a value lies inside
Inside(x) == {b \in BandTable : x.kind = "number" /\ 10 * b.lo < x.f /\ x.f < 10 * b.hi}

\* C16: band classification is total and gives at most one label: a value
\* inside a declared range gets that range's label, every other number and
\* every non-numeric input the empty label, never an error; 14074 -> 20m,
\* 999 -> empty, 1500 -> 160m, 7100 -> 40m.
C16_BandClassification ==
    Banded =>
        LET x == fnArg.qrg
        IN  /\ fnRet.kind = "band"
            /\ Cardinality(Inside(x)) <= 1
            /\ \A b \in Inside(x) : fnRet.label = b.label
            /\ Inside(x) = {} => fnRet.label = ""
            /\ x = [kind |-> "number", f |-> 140740] => fnRet.label = "20m"
            /\ x = [kind |-> "number", f |-> 9990]   => fnRet.label = ""
            /\ x = [kind |-> "number", f |-> 15000]  => fnRet.label = "160m"
            /\ x = [kind |-> "number", f |-> 71000]  => fnRet.label = "40m"

\* 7100 kHz has been classified
C16_Witness ==
    Banded /\ fnArg.qrg = [kind |-> "number", f |-> 71000] /\ fnRet.label = "40m"

\* ------------------------------------------------- cache content claims
\* C17: a finished frequency lookup holds, among all cached records whose
\* frequency is the requested kHz value, whichever grammar produced them,
\* one with the latest timestamp, and is empty only when no cached record
\* has that frequency.
C17_FreshestForFrequency ==
    \A w \in Web :
        (web[w].op = "api_spot" /\ web[w].pc = "iter" /\ web[w].idx = Len(spots) + 1) =>
            LET same == {k \in 1..Len(spots) : spots[k].frequency = web[w].arg}
            IN  IF same = {} THEN web[w].out = <<>>
                ELSE /\ Len(web[w].out) = 1
                     /\ web[w].out[1].frequency = web[w].arg
                     /\ \A k \in same : spots[k].when <= web[w].out[1].when

\* the read loop took a line and went back to its guard without a record
UnmatchedLineStep(m) == mgr[m].pc = "read" /\ mgr'[m].pc = "readguard"

\* C18: a line that matches neither grammar, and an empty line, leaves the
\* cache as it is, starts no enrichment thread and raises nothing: the
\* read loop goes on with the connection open and `connected` true.
C18_UnmatchedLineChangesNothing ==
    [][\A m \in Mgrs :
          UnmatchedLineStep(m) =>
              /\ spots' = spots /\ spotsMaxlen' = spotsMaxlen
              /\ Dispatched' = Dispatched
              /\ mgr'[m].spot = NoSpot
              /\ mgr'[m].tn = "open"
              /\ mgr'[m].connected]_vars

\* a line is awaited on an open connection while the cache holds a record
C18_Witness ==
    \E m \in Mgrs :
        /\ mgr[m].pc = "read" /\ mgr[m].tn = "open" /\ mgr[m].connected
        /\ Len(spots) >= 1

Ids(seq) == [k \in 1..Len(seq) |-> seq[k].id]

\* the record but for what populate_dxcc wrote into it
Bare(r) == [r EXCEPT !.dxcc = FALSE]

\* C19: a record leaves the cache only by FIFO eviction, on an append to a
\* full cache or on a capacity shrink; no other step (reconnect, stop,
\* restart, read, enrichment, command write) removes, replaces or
\* reorders records.
C19_OnlyFifoEviction ==
    [][/\ \A k \in 1..Len(spots), n \in 1..Len(spots') :
            spots'[n].id = spots[k].id =>
                (Bare(spots'[n]) = Bare(spots[k]) /\ (spots[k].dxcc => spots'[n].dxcc))
       /\ Ids(spots') # Ids(spots) =>
            \E j \in 0..Len(spots) :
                LET kept == SubSeq(Ids(spots), j + 1, Len(spots))
                IN  \/ \E m \in Mgrs : /\ AppendStep(m)
                                          /\ Ids(spots') = Append(kept, mgr[m].spot.id)
                                          /\ (j > 0 => Len(spots) = spotsMaxlen)
                    \/ /\ ResizeStep
                       /\ Ids(spots') = kept
                       /\ spotsMaxlen' < Len(spots)]_vars

\* an enrichment field has been written into a record that is in the cache
C19_Witness == Len(spots) = 2 /\ spots[1].dxcc /\ ~spots[2].dxcc

\* C20: the cache holds its records in line-arrival order: of two cached
\* records the one whose line arrived first is the older one.
C20_AppendOrderIsArrivalOrder ==
    \A i, j \in 1..Len(spots) : i < j => spots[i].id < spots[j].id

\* ------------------------------------------------------ producer claims
\* managers on which restart_client has called stop and whose replacement
\* has been started
Replaced == {m \in Mgrs : m < client}

\* C21: once the replacement manager has been started, the stopped manager
\* holds no open connection and no record it is still going to append, so
\* at most one manager holds a connection or can append.
C21_SingleProducer ==
    \A m \in Replaced :
        /\ mgr[m].tn # "open"
        /\ mgr[m].pc \notin {"append", "append2"}

\* C22: the cache guard is held only by an append, a resize or an iteration
\* of the Spot Cache: never across a wait, a connection write or a restart.
C22_GuardOnlyForCacheOperations ==
    /\ lock = "mgr" => \E m \in Mgrs : mgr[m].pc = "append2"
    /\ \A w \in Web : lock = w => web[w].op \in ReadOps \cup {"config"}

\* ---------------------------------------------------------- login claims
LoginWrites == {"call", "shdx"}

\* what the manager itself has written to its open connection
OwnWrites(m) == SelectSeq(mgr[m].wire, LAMBDA x : x \in LoginWrites)

\* C23: in each connection attempt the manager writes the call sign only
\* after a login prompt was matched and only once, and the backlog request
\* only after the call sign; an attempt whose prompt was matched enters the
\* read loop with both written in that order, an attempt without a match
\* (window over, or stream ended while polling) enters it with neither.
C23_LoginSequence ==
    [][\A m \in Mgrs :
          /\ Len(OwnWrites(m)') > Len(OwnWrites(m)) =>
                \/ /\ mgr[m].pc = "login" /\ mgr[m].got_login
                   /\ OwnWrites(m) = <<>>
                   /\ OwnWrites(m)' = <<"call">>
                \/ /\ mgr[m].pc = "login2"
                   /\ OwnWrites(m) = <<"call">>
                   /\ OwnWrites(m)' = <<"call", "shdx">>
          /\ (mgr[m].pc \in {"login", "login2"} /\ mgr'[m].pc = "readguard") =>
                IF mgr[m].pc = "login2"
                THEN OwnWrites(m)' = <<"call", "shdx">>
                ELSE ~mgr[m].got_login /\ OwnWrites(m)' = <<>>]_vars

\* a manager reads lines after it has answered a login prompt
C23_Witness ==
    \E m \in Mgrs : mgr[m].pc = "read" /\ OwnWrites(m) = <<"call", "shdx">>

\* ------------------------------------------------- configuration claims
\* positions of run() inside the read loop of a live session
InSession == {"readguard", "read", "lineerr", "append", "append2"}

\* C24: what the manager uses during a session was read when the attempt
\* began: no step the manager takes inside its read loop changes the
\* capacity of the cache it feeds, whatever was saved to the configuration
\* in the meantime.
C24_ConfigAppliesOnReconnect ==
    [][\A m \in Mgrs :
          (mgr[m].pc \in InSession /\ mgr'[m].pc \in InSession /\ mgr'[m].pc # mgr[m].pc)
              => (spotsMaxlen' = spotsMaxlen /\ Len(spots') >= Len(spots))]_vars

\* ------------------------------------------------ error counter claims
\* C25: the consecutive-error counter counts the failed requests completed
\* since the last successful one under every interleaving: each completed
\* failure adds exactly one to it and each completed success sets it to 0.
C25_CounterCountsFailures ==
    [][\A e \in Lookers :
          /\ (lookup[e].pc = "count" /\ lookup'[e].pc = "idle")
                => consecutive_dxcc_errors' = consecutive_dxcc_errors + 1
          /\ (lookup[e].pc = "reset" /\ lookup'[e].pc = "idle")
                => consecutive_dxcc_errors' = 0]_vars

\* --------------------------------------------- enrichment order claims
\* C26: enrichment touches a record only after the record has been put in
\* the Spot Cache: a record that a manager has built and not yet appended
\* carries no enrichment field.
C26_EnrichedOnlyAfterInsertion ==
    \A m \in Mgrs : mgr[m].pc \in {"append", "append2"} => ~mgr[m].spot.dxcc

\* ------------------------------------------------------ frequency claims
\* the integers nearest to f tenths of a kHz (two of them at a half)
Nearest(f) ==
    IF f % 10 < 5 THEN {f \div 10}
    ELSE IF f % 10 > 5 THEN {f \div 10 + 1}
    ELSE {f \div 10, f \div 10 + 1}

\* C27: the frequency stored for a relay line is the line's decimal kHz
\* value rounded to the nearest integer, as a string of digits; 14074.0
\* gives "14074".
C27_RelayFrequencyRounded ==
    (fnArg.fn = "relay_frequency" /\ fnRet # NoRet) =>
        /\ \E k \in Nearest(fnArg.freq) : fnRet.digits = DigitsOf(k)
        /\ fnArg.freq = 140740 => fnRet.digits = <<1, 4, 0, 7, 4>>

\* ------------------------------------------------------ ordering claims
\* the login exchange of the attempt is still under way
InLogin == {"setconn", "poll", "login", "login2"}

\* C28: nothing a send-spot or send-command writes reaches a connection
\* before the login exchange of that attempt is over: not while the manager
\* polls for the prompt, and not ahead of or between its login writes.
C28_NoSendBeforeLoginDone ==
    \A m \in Mgrs :
        LET wire == mgr[m].wire
        IN  /\ mgr[m].pc \in InLogin => \A i \in 1..Len(wire) : wire[i] \notin SendOps
            /\ \A i, j \in 1..Len(wire) :
                   (i < j /\ wire[i] \in SendOps) => wire[j] \notin LoginWrites

\* C29: once stop has been called on a manager, that manager opens no
\* connection, does not set connected to true and writes neither the call
\* sign nor the backlog request, wherever in its loop it was.
C29_StoppedManagerStaysQuiet ==
    [][\A m \in Mgrs :
          mgr[m].stop =>
              /\ mgr'[m].tn = "open" => mgr[m].tn = "open"
              /\ mgr'[m].connected => mgr[m].connected
              /\ Len(OwnWrites(m)') <= Len(OwnWrites(m))]_vars

====
